---- MODULE Spec2Model ----
(***************************************************************************)
(* pubkey-collector: SSH public keys of GitHub users are fetched per user  *)
(* (pkg/collect), and stored in a key-addressed BadgerDB (pkg/keydb) by    *)
(* the driver cmd/pubkey-collector.                                        *)
(*                                                                         *)
(* Go strings are modelled as sequences of one-character strings, so that  *)
(* TrimSpace, Split and HasSuffix are computed as the library computes     *)
(* them.  "" is the empty sequence.                                        *)
(***************************************************************************)
EXTENDS Integers, Sequences, FiniteSets, TLC

(***************************************************************************)
(* Bounds of the model.                                                    *)
(***************************************************************************)
MaxBodyLen == 4      \* characters of a key-listing response body
MaxKeys == 2         \* public keys of an identity handed to Store directly
MaxTime == 1         \* seconds of the timestamps handed to Store directly: 0..MaxTime
MaxPages == 2        \* pages of a membership listing
MaxPageLen == 2      \* members on one page
MaxEvents == 3       \* events of one activity poll
MaxPolls == 2        \* activity polls of one run

Nil == "nil"                 \* the nil error
NilUser == [nil |-> TRUE]    \* a nil *UserInfo
NilMetadata == [nil |-> TRUE]  \* a nil *Metadata

(***************************************************************************)
(* Strings.                                                                *)
(***************************************************************************)
\* A character is a rune.  The white-space runes that have no escape in a
\* TLA+ string are written as the string of their Go escape: VT is the one
\* rune '\v', not a backslash and a v.
VT == "\\v"
NEL == "\\u0085"
NBSP == "\\u00A0"

\* the white space outside Latin-1: the runes of the Unicode property
\* White_Space (unicode.White_Space)
WhiteSpaceRunes ==
    {"\\u1680", "\\u2000", "\\u2001", "\\u2002", "\\u2003", "\\u2004",
     "\\u2005", "\\u2006", "\\u2007", "\\u2008", "\\u2009", "\\u200a",
     "\\u2028", "\\u2029", "\\u202f", "\\u205f", "\\u3000"}

Chars == {"a", "b", " ", "\n", VT}

\* unicode.IsSpace, as strings.TrimSpace uses it: '\t', '\n', '\v', '\f',
\* '\r', ' ', U+0085 and U+00A0 in Latin-1, White_Space beyond it
IsSpace(c) ==
    \/ c \in {" ", "\t", "\n", VT, "\f", "\r", NEL, NBSP}
    \/ c \in WhiteSpaceRunes

RECURSIVE TrimLeftSpace(_)
TrimLeftSpace(s) ==
    IF s = <<>> THEN <<>>
    ELSE IF IsSpace(Head(s)) THEN TrimLeftSpace(Tail(s))
    ELSE s

RECURSIVE TrimRightSpace(_)
TrimRightSpace(s) ==
    IF s = <<>> THEN <<>>
    ELSE IF IsSpace(s[Len(s)]) THEN TrimRightSpace(SubSeq(s, 1, Len(s) - 1))
    ELSE s

\* strings.TrimSpace: leading and trailing white space removed
TrimSpace(s) == TrimRightSpace(TrimLeftSpace(s))

\* strings.Split(s, sep) for a one-character sep: the substrings between the
\* separators; a string without separator (the empty one too) gives one element
RECURSIVE SplitFrom(_, _, _)
SplitFrom(s, sep, cur) ==
    IF s = <<>> THEN <<cur>>
    ELSE IF Head(s) = sep THEN <<cur>> \o SplitFrom(Tail(s), sep, <<>>)
    ELSE SplitFrom(Tail(s), sep, Append(cur, Head(s)))

Split(s, sep) == SplitFrom(s, sep, <<>>)

HasPrefix(s, prefix) ==
    /\ Len(s) >= Len(prefix)
    /\ SubSeq(s, 1, Len(prefix)) = prefix

HasSuffix(s, suffix) ==
    /\ Len(s) >= Len(suffix)
    /\ SubSeq(s, Len(s) - Len(suffix) + 1, Len(s)) = suffix

\* all strings over cs of length at most n
StringsUpTo(cs, n) == UNION {[1..k -> cs] : k \in 0..n}

(***************************************************************************)
(* pkg/collect: the key fetcher.                                           *)
(***************************************************************************)
StatusOK == 200

\* What http.Get and io.ReadAll can give for one key-listing retrieval.
Response(getErr, status, readErr, body) ==
    [getErr |-> getErr, status |-> status, readErr |-> readErr, body |-> body]

ResponsesOver(bodies) ==
    {Response(TRUE, 0, FALSE, <<>>), Response(FALSE, 404, FALSE, <<>>),
     Response(FALSE, StatusOK, TRUE, <<>>)}
    \cup {Response(FALSE, StatusOK, FALSE, b) : b \in bodies}

\* a mutant of fetchPublicKeys: only trailing white space is trimmed
fetchPublicKeysTrimRight(resp) ==
    IF resp.getErr THEN [keys |-> <<>>, err |-> "get"]
    ELSE IF resp.status # StatusOK THEN [keys |-> <<>>, err |-> "status"]
    ELSE IF resp.readErr THEN [keys |-> <<>>, err |-> "read"]
    ELSE IF Len(resp.body) = 0 THEN [keys |-> <<>>, err |-> Nil]
    ELSE [keys |-> Split(TrimRightSpace(resp.body), "\n"), err |-> Nil]

\* fetchPublicKeys: (keys, err)
fetchPublicKeys(resp) ==
    IF resp.getErr THEN [keys |-> <<>>, err |-> "get"]
    ELSE IF resp.status # StatusOK THEN [keys |-> <<>>, err |-> "status"]
    ELSE IF resp.readErr THEN [keys |-> <<>>, err |-> "read"]
    ELSE IF Len(resp.body) = 0 THEN [keys |-> <<>>, err |-> Nil]
    ELSE [keys |-> Split(TrimSpace(resp.body), "\n"), err |-> Nil]

UserInfo(keys, repo, username) ==
    [PublicKeys |-> keys, Repo |-> repo, Username |-> username]

\* a mutant of processUser: a failed fetch is returned to the caller
processUserPropagating(username, repo, resp) ==
    IF username = <<>> THEN [user |-> NilUser, err |-> "empty username"]
    ELSE LET f == fetchPublicKeys(resp) IN
         IF f.err # Nil THEN [user |-> NilUser, err |-> f.err]
         ELSE [user |-> UserInfo(f.keys, repo, username), err |-> Nil]

\* processUser: (user, err)
processUser(username, repo, resp) ==
    IF username = <<>> THEN [user |-> NilUser, err |-> "empty username"]
    ELSE LET f == fetchPublicKeys(resp)
             publicKeys == IF f.err # Nil THEN <<>> ELSE f.keys
         IN  [user |-> UserInfo(publicKeys, repo, username), err |-> Nil]

\* user, err := processUser(..); if err == nil && user != nil { append }
collectUser(allUsers, username, repo, resp) ==
    LET r == processUser(username, repo, resp) IN
    IF r.err = Nil /\ r.user # NilUser THEN Append(allUsers, r.user) ELSE allUsers

(***************************************************************************)
(* pkg/keydb: the store.  db is the committed content of the BadgerDB, a   *)
(* function from key strings to the stored value bytes.                    *)
(***************************************************************************)
Metadata(user, repo, timestamp) ==
    [User |-> user, Repo |-> repo, Timestamp |-> timestamp]

\* A time.Time: the instant in seconds, the nanoseconds within the second
\* and the offset of its zone, in minutes east of UTC.
Time(sec, nsec, offset) == [sec |-> sec, nsec |-> nsec, offset |-> offset]

\* The time line of the model, to a scale that keeps its ends near: the
\* instants from FirstJSONTime to LastJSONTime are those of the years 0 to
\* 9999, the only ones Time.MarshalJSON encodes.  time.Now() is among them
\* throughout a run of the driver.
FirstJSONTime == 0
LastJSONTime == 100000

\* the seconds and the minutes Time.MarshalJSON counts with
SecondsPerMinute == 60
MinutesPerDay == 1440

\* the wall clock of t in its zone, in seconds
WallClock(t) == t.sec + SecondsPerMinute * t.offset

\* Time.MarshalJSON returns an error: the year of t in its zone is outside
\* [0, 9999], or the zone is 24 hours or more from UTC
TimeMarshalError(t) ==
    IF WallClock(t) < FirstJSONTime \/ WallClock(t) > LastJSONTime
    THEN "year outside of range [0,9999]"
    ELSE IF t.offset >= MinutesPerDay \/ t.offset <= -MinutesPerDay
    THEN "timezone hour outside of range [0,23]"
    ELSE Nil

\* json.Marshal(metadata) returns an error: the one of Time.MarshalJSON
\* (strings always encode)
MarshalFails(m) == TimeMarshalError(m.Timestamp) # Nil

\* json.Marshal(metadata) without error: the object's members in field order
Marshal(m) ==
    << <<"user", m.User>>, <<"repo", m.Repo>>, <<"timestamp", m.Timestamp>> >>

JSONField(val, name) ==
    LET is == {i \in 1..Len(val) : val[i][1] = name} IN
    val[CHOOSE i \in is : \A j \in is : i <= j][2]

\* json.Unmarshal(val, &metadata)
Unmarshal(val) ==
    Metadata(JSONField(val, "user"), JSONField(val, "repo"),
             JSONField(val, "timestamp"))

EmptyDB == [k \in {} |-> <<>>]

\* badger's reserved key prefix "!badger!"
badgerPrefix == <<"!", "b", "a", "d", "g", "e", "r", "!">>

\* The limits of badger as keydb.New opens it, with badger.DefaultOptions:
\* the longest key; the largest value; the value size from which an entry
\* is counted as a pointer; and the size and the number of entries a
\* transaction must stay below, (15 * MemTableSize) / 100 for a MemTableSize
\* of 64 MB and that size divided by the size of a skiplist node.
maxKeySize == 65000
ValueLogFileSize == 1073741823
ValueThreshold == 1048576
maxBatchSize == 10066329
maxBatchCount == 104857

\* The bytes of a rune in UTF-8: the runes of the model are ASCII but for
\* the white space named above, NEL and NBSP of two bytes and the runes of
\* WhiteSpaceRunes of three.
UTF8Len(c) ==
    IF c \in {NEL, NBSP} THEN 2 ELSE IF c \in WhiteSpaceRunes THEN 3 ELSE 1

\* len([]byte(s))
RECURSIVE ByteLen(_)
ByteLen(s) == IF s = <<>> THEN 0 ELSE UTF8Len(Head(s)) + ByteLen(Tail(s))

\* The bytes json.Marshal writes for a rune of a string: two for the quote,
\* the backslash and the control characters with a short escape, six
\* (\u00XX) for the other control characters, for <, > and & and for
\* U+2028 and U+2029, the rune's UTF-8 otherwise.
JSONRuneLen(c) ==
    IF c \in {"\"", "\\", "\n", "\r", "\t", "\f", "\\b"} THEN 2
    ELSE IF c \in {"<", ">", "&", VT, "\\u2028", "\\u2029"} THEN 6
    ELSE UTF8Len(c)

\* the bytes of a string as json.Marshal writes it, its quotes included
RECURSIVE JSONRunesLen(_)
JSONRunesLen(s) ==
    IF s = <<>> THEN 0 ELSE JSONRuneLen(Head(s)) + JSONRunesLen(Tail(s))

JSONStringLen(s) == 2 + JSONRunesLen(s)

\* the digits of the nanoseconds that RFC3339Nano prints: nine, less the
\* trailing zeros
RECURSIVE NanoDigits(_, _)
NanoDigits(nsec, digits) ==
    IF nsec % 10 # 0 THEN digits ELSE NanoDigits(nsec \div 10, digits - 1)

\* The bytes Time.MarshalJSON writes, the quotes included: the date and
\* the time of day 2006-01-02T15:04:05 (19 bytes), the fraction of the
\* second when it is not zero, and the zone, Z for UTC and +07:00 else.
JSONTimeLen(t) ==
    2 + 19
      + (IF t.nsec = 0 THEN 0 ELSE 1 + NanoDigits(t.nsec, 9))
      + (IF t.offset = 0 THEN 1 ELSE 6)

\* the bytes of {"user":,"repo":,"timestamp":} around the three values
JSONFrame == 30

\* len(metadataJSON)
JSONLen(val) ==
    JSONFrame + JSONStringLen(JSONField(val, "user"))
              + JSONStringLen(JSONField(val, "repo"))
              + JSONTimeLen(JSONField(val, "timestamp"))

\* badger's key of the entry that ends a transaction, "!badger!txn"
txnKey == badgerPrefix \o <<"t", "x", "n">>

\* db.NewTransaction(true) of db.Update: the writes the transaction holds,
\* their number and their estimated size, which count the entry that ends
\* the transaction in advance
NewTxn == [pending |-> EmptyDB, count |-> 1, size |-> Len(txnKey) + 10]

\* a mutant of txnSet: an empty key is accepted like any other
txnSetAnyKey(txn, key, val) ==
    [pending |-> [k \in DOMAIN txn.pending \cup {key} |->
                     IF k = key THEN val ELSE txn.pending[k]],
     count |-> txn.count + 1, size |-> txn.size,
     err |-> Nil]

\* txn.Set(key, val) inside an update transaction: the write is buffered in
\* the transaction, or refused: the empty key, a key with the reserved
\* prefix, a key or a value that is too long, and an entry with which the
\* transaction would reach its limit of entries or of size (ErrTxnTooBig)
txnSet(txn, key, val) ==
    LET refused(e) == [pending |-> txn.pending, count |-> txn.count,
                       size |-> txn.size, err |-> e]
        \* modify(e) for a key of klen bytes and a value of vlen bytes
        modify(klen, vlen) ==
            LET estimate == IF vlen < ValueThreshold THEN klen + vlen + 2
                            ELSE klen + 12 + 2
                count == txn.count + 1
                size == txn.size + estimate + 10
            IN  IF klen = 0 THEN refused("ErrEmptyKey")
                ELSE IF HasPrefix(key, badgerPrefix)
                     THEN refused("ErrInvalidKey")
                ELSE IF klen > maxKeySize THEN refused("Key exceeded limit")
                ELSE IF vlen > ValueLogFileSize
                     THEN refused("Value exceeded limit")
                ELSE IF count >= maxBatchCount \/ size >= maxBatchSize
                     THEN refused("ErrTxnTooBig")
                ELSE [pending |-> [k \in DOMAIN txn.pending \cup {key} |->
                                      IF k = key THEN val ELSE txn.pending[k]],
                      count |-> count, size |-> size,
                      err |-> Nil]
    IN  \* the two lengths are bound as elements of singletons so that each
        \* is computed once
        CHOOSE out \in {modify(klen, vlen) :
                            klen \in {ByteLen(key)},
                            vlen \in {JSONLen(val)}} : TRUE

\* for _, pubKey := range userInfo.PublicKeys { txn.Set(..) }: stops at the
\* first refused write.  r, the outcome of one txn.Set, is bound as the
\* element of a singleton so that it is computed once per iteration.
RECURSIVE setAll(_, _, _)
setAll(txn, keys, val) ==
    IF keys = <<>> THEN [pending |-> txn.pending, err |-> Nil]
    ELSE CHOOSE out \in
            {IF r.err # Nil THEN [pending |-> r.pending, err |-> r.err]
             ELSE setAll([pending |-> r.pending, count |-> r.count,
                          size |-> r.size], Tail(keys), val) :
                r \in {txnSet(txn, Head(keys), val)}} : TRUE

\* a mutant of dbUpdate: the writes made before a failure are kept
dbUpdatePartial(d, r) ==
    [k \in DOMAIN d \cup DOMAIN r.pending |->
        IF k \in DOMAIN r.pending THEN r.pending[k] ELSE d[k]]

\* a mutant of dbUpdate: an entry that exists is not overwritten
dbUpdateKeepFirst(d, r) ==
    IF r.err # Nil THEN d
    ELSE [k \in DOMAIN d \cup DOMAIN r.pending |->
             IF k \in DOMAIN d THEN d[k] ELSE r.pending[k]]

\* a mutant of dbUpdate: the committed transaction replaces the content
dbUpdateReplace(d, r) == IF r.err # Nil THEN d ELSE r.pending

\* a mutant of dbUpdate: the committed value is written to every entry
dbUpdateStampAll(d, r) ==
    IF r.err # Nil \/ DOMAIN r.pending = {} THEN d
    ELSE LET v == r.pending[CHOOSE k \in DOMAIN r.pending : TRUE] IN
         [k \in DOMAIN d \cup DOMAIN r.pending |-> v]

\* db.Update(fn): the transaction's writes are committed together when fn
\* returns nil, and discarded when it returns an error.  The commit itself
\* is taken to succeed: a transaction of blind writes has no conflict, and
\* a failure of the disk under the store is outside the model.
dbUpdate(d, r) ==
    IF r.err # Nil THEN d
    ELSE [k \in DOMAIN d \cup DOMAIN r.pending |->
             IF k \in DOMAIN r.pending THEN r.pending[k] ELSE d[k]]

\* KeyDB.Store: (db after the call, err).  When json.Marshal fails the
\* error is returned before any transaction is opened.
Store(d, userInfo, user, timestamp) ==
    LET metadata == Metadata(user, userInfo.Repo, timestamp)
    IN  IF MarshalFails(metadata)
        THEN [db |-> d, err |-> TimeMarshalError(timestamp)]
        ELSE CHOOSE out \in
                {[db |-> dbUpdate(d, r), err |-> r.err] :
                    r \in {setAll(NewTxn, userInfo.PublicKeys, metadataJSON) :
                              metadataJSON \in {Marshal(metadata)}}} : TRUE

\* KeyDB.Lookup: (metadata, err)
Lookup(d, pubKey) ==
    IF Len(pubKey) = 0 THEN [meta |-> NilMetadata, err |-> "ErrEmptyKey"]
    ELSE IF pubKey \notin DOMAIN d THEN [meta |-> NilMetadata, err |-> "ErrKeyNotFound"]
    ELSE [meta |-> Unmarshal(d[pubKey]), err |-> Nil]

\* a mutant of Count: the scan stops one entry short
CountShort(d) == IF DOMAIN d = {} THEN 0 ELSE Cardinality(DOMAIN d) - 1

\* KeyDB.Count: one per entry of a full scan
Count(d) == Cardinality(DOMAIN d)

(***************************************************************************)
(* State.                                                                  *)
(***************************************************************************)
VARIABLES
    db,          \* the committed content of the BadgerDB
    last,        \* the last KeyDB call: its arguments and what it returned
    lastWrite,   \* history: per key, the metadata of the last Store that wrote it
    rewritten,   \* history: the keys written again with another user, repo and time
    called,      \* history: the key sets of the Store calls, while pairwise disjoint
    fIn, fOut,   \* one key-listing retrieval: its input and what came of it
    pc,          \* where the driver cmd/pubkey-collector is
    orgFlag,     \* -org: the organization, "" when not given
    streamFlag,  \* -stream
    now,         \* the time time.Now() gives, in seconds since the start
    upstream,    \* the organization's membership listing at GitHub: its pages
    optsPage,    \* OrgMembers: opts.Page
    members,     \* OrgMembers: the page ListMembers returned
    nextPage,    \* OrgMembers: resp.NextPage
    listErr,     \* OrgMembers: the err of ListMembers
    events,      \* RecentEvents: the events ListEvents returned
    idx,         \* the position of the range loop over members or events
    seen,        \* RecentEvents: seen
    allUsers,    \* OrgMembers, RecentEvents: allUsers
    users,       \* processOrgMembers, processStreamEvents: users left to store
    sleepFor,    \* processStream: the duration of the last time.Sleep, seconds
    pollErr,     \* RecentEvents, streamEvents: the err of the last ListEvents
    polls,       \* the number of ListEvents calls made
    passed,      \* history: the usernames handed to processUser in this pass
    conc,        \* the Store calls that run concurrently, each inside db.Update
    files,       \* the file-based driver: the files under the output directory
    userInfoFlag \* the file-based driver: the -userinfo flag

kvars == <<lastWrite, rewritten, called>>
fvars == <<fIn, fOut>>
ovars == <<upstream, optsPage, members, nextPage, listErr>>
svars == <<events, seen, sleepFor, polls, pollErr>>
dvars == <<pc, orgFlag, streamFlag, now, ovars, svars, idx, allUsers, users, passed>>
xvars == <<conc, files, userInfoFlag>>
vars == <<db, last, kvars, fvars, dvars, xvars>>

alice == <<"a", "l", "i", "c", "e">>
bob == <<"b", "o", "b">>
org == <<"o", "r", "g">>

NoCall == [op |-> "none"]

\* a nil error of a poll, and an error of the kind and text given
NoError == [isNil |-> TRUE, rateLimit |-> FALSE, text |-> <<>>]
PollError(rateLimit, text) ==
    [isNil |-> FALSE, rateLimit |-> rateLimit, text |-> text]
NoFamily ==
    [family |-> {}, stored |-> {}, disjoint |-> TRUE, again |-> FALSE,
     againStored |-> FALSE, countBefore |-> 0]

KeySet(keys) == {keys[i] : i \in 1..Len(keys)}

PairwiseDisjoint(F) == \A S \in F : \A T \in F : S # T => S \cap T = {}

(***************************************************************************)
(* SpecFetch: the key fetcher on every response with a body of at most     *)
(* MaxBodyLen characters.                                                  *)
(***************************************************************************)
FetchIdle == fIn = [idle |-> TRUE] /\ fOut = [done |-> FALSE]

\* an output directory without files
EmptyDir == [path \in {} |-> <<>>]

\* no Store calls in flight, and the file-based driver not run
ConcIdle == conc = [idle |-> TRUE]
FileIdle == files = EmptyDir /\ userInfoFlag = FALSE

\* the driver before main runs, for the specifications of the parts
DriverIdle ==
    /\ pc = "idle" /\ orgFlag = <<>> /\ streamFlag = FALSE /\ now = 0
    /\ upstream = <<>> /\ optsPage = 0 /\ members = <<>> /\ nextPage = 0
    /\ listErr = Nil /\ events = <<>> /\ idx = 1 /\ seen = {}
    /\ allUsers = <<>> /\ users = <<>> /\ sleepFor = 0 /\ polls = 0
    /\ pollErr = NoError
    /\ passed = <<>>

InitFetch ==
    /\ db = EmptyDB /\ last = NoCall
    /\ lastWrite = EmptyDB /\ rewritten = {} /\ called = NoFamily
    /\ fIn \in [username : {<<>>, alice}, repo : {<<>>, org},
                resp : ResponsesOver(StringsUpTo(Chars, MaxBodyLen))]
    /\ fOut = [done |-> FALSE]
    /\ DriverIdle
    /\ ConcIdle /\ FileIdle

\* fetchPublicKeys on the response, and processUser with the append of
\* the collecting loops of OrgMembers and RecentEvents
Fetch ==
    /\ ~fOut.done
    /\ fOut' = [done |-> TRUE,
                fetch |-> fetchPublicKeys(fIn.resp),
                allUsers |-> collectUser(<<>>, fIn.username, fIn.repo, fIn.resp)]
    /\ UNCHANGED <<db, last, kvars, fIn, dvars, xvars>>

NextFetch == Fetch

SpecFetch == InitFetch /\ [][NextFetch]_vars

(***************************************************************************)
(* SpecKeyDB and SpecCount: Store, Lookup and Count called in any order on *)
(* a store that starts empty, as cmd/pubkey-db-load and the driver call    *)
(* them.  The two differ in the history they keep: SpecKeyDB keeps the     *)
(* last write of every key, SpecCount the key sets of the calls.           *)
(***************************************************************************)
\* a key with badger's reserved prefix
ReservedKey == badgerPrefix \o <<"a">>

KeyUniverse == {<<>>, <<"a">>, <<"b">>}
KeySeqs == StringsUpTo(KeyUniverse, MaxKeys)
Callers == {[user |-> alice, repo |-> org], [user |-> bob, repo |-> <<>>]}

InitKeyDB ==
    /\ db = EmptyDB /\ last = NoCall
    /\ lastWrite = EmptyDB /\ rewritten = {} /\ called = NoFamily
    /\ FetchIdle /\ DriverIdle /\ ConcIdle /\ FileIdle

\* history of the writes: a Store that returned nil wrote each of its keys
WritesAfter(keys, m, err) ==
    LET ks == KeySet(keys) IN
    /\ lastWrite' =
          IF err # Nil THEN lastWrite
          ELSE [k \in DOMAIN lastWrite \cup ks |->
                   IF k \in ks THEN m ELSE lastWrite[k]]
    /\ rewritten' =
          IF err # Nil THEN rewritten
          ELSE rewritten \cup
               {k \in ks \cap DOMAIN lastWrite :
                   /\ lastWrite[k].User # m.User
                   /\ lastWrite[k].Repo # m.Repo
                   /\ lastWrite[k].Timestamp # m.Timestamp}

\* history of the calls: the key sets Store was called with, and those of
\* the calls that returned nil, kept as long as they are pairwise disjoint
CallsAfter(keys, err) ==
    LET ks == KeySet(keys) IN
    called' =
        IF called.disjoint /\ PairwiseDisjoint(called.family \cup {ks})
        THEN [family |-> called.family \cup {ks},
              stored |-> IF err = Nil THEN called.stored \cup {ks}
                         ELSE called.stored,
              disjoint |-> TRUE,
              again |-> ks \in called.family,
              againStored |-> ks \in called.stored,
              countBefore |-> Count(db)]
        ELSE [family |-> {}, stored |-> {}, disjoint |-> FALSE,
              again |-> FALSE, againStored |-> FALSE, countBefore |-> 0]

\* the timestamps handed to Store directly: UTC times that encode, one on
\* either side of the years Time.MarshalJSON encodes, and one in a zone 24
\* hours from UTC
StoreTimes ==
    {Time(sec, 0, 0) : sec \in 0..MaxTime}
        \cup {Time(FirstJSONTime - 1, 0, 0), Time(LastJSONTime + 1, 0, 0),
              Time(0, 0, MinutesPerDay)}

\* the key sequences handed to Store directly: those of KeySeqs, and one
\* whose second key has the reserved prefix
StoreKeySeqs == KeySeqs \cup {<< <<"a">>, ReservedKey >>}

KStore(trackWrites) ==
    \E keys \in StoreKeySeqs, c \in Callers, ts \in StoreTimes :
        \E r \in {Store(db, UserInfo(keys, c.repo, c.user), c.user, ts)} :
        /\ db' = r.db
        /\ last' = [op |-> "Store", keys |-> keys, user |-> c.user,
                    repo |-> c.repo, ts |-> ts, err |-> r.err]
        /\ IF trackWrites
           THEN WritesAfter(keys, Metadata(c.user, c.repo, ts), r.err)
                /\ UNCHANGED called
           ELSE CallsAfter(keys, r.err) /\ UNCHANGED <<lastWrite, rewritten>>
        /\ UNCHANGED <<fvars, xvars, dvars>>

KLookup ==
    \E pubKey \in KeyUniverse :
        LET r == Lookup(db, pubKey) IN
        /\ last' = [op |-> "Lookup", key |-> pubKey, meta |-> r.meta, err |-> r.err]
        /\ UNCHANGED <<db, kvars, fvars, xvars, dvars>>

KCount ==
    /\ last' = [op |-> "Count", n |-> Count(db), err |-> Nil]
    /\ UNCHANGED <<db, kvars, fvars, xvars, dvars>>

NextKeyDB == KStore(TRUE) \/ KLookup \/ KCount

SpecKeyDB == InitKeyDB /\ [][NextKeyDB]_vars

NextCount == KStore(FALSE) \/ KLookup \/ KCount

SpecCount == InitKeyDB /\ [][NextCount]_vars

(***************************************************************************)
(* SpecConcurrent: two goroutines call Store at the same time on one       *)
(* KeyDB.  Each call runs its loop of txn.Set inside its own db.Update     *)
(* transaction; the steps of the two interleave in every way.  The         *)
(* transactions make no read, so badger's commit never reports a conflict. *)
(***************************************************************************)
Goroutines == {1, 2}

\* a Store call inside db.Update, json.Marshal having encoded its metadata:
\* the position of its loop over the keys and the writes its transaction
\* holds
Txn(keys, user, repo, ts) ==
    [pc |-> "fn", keys |-> keys, user |-> user, repo |-> repo, ts |-> ts,
     i |-> 1, pending |-> NewTxn.pending, count |-> NewTxn.count,
     size |-> NewTxn.size, err |-> Nil]

\* what the store may hold when the two calls start
StoredBefore ==
    {EmptyDB,
     Store(EmptyDB, UserInfo(<<<<"a">>>>, <<>>, bob), bob, Time(0, 0, 0)).db}

InitConcurrent ==
    /\ db \in StoredBefore /\ last = NoCall
    /\ lastWrite = EmptyDB /\ rewritten = {} /\ called = NoFamily
    /\ FetchIdle /\ DriverIdle /\ FileIdle
    /\ \E k1 \in KeySeqs, k2 \in KeySeqs :
          conc = [base |-> db, overlapped |-> FALSE,
                  txn |-> <<Txn(k1, alice, org, Time(0, 0, 0)),
                           Txn(k2, bob, <<>>, Time(1, 0, 0))>>]

\* history: both transactions have held writes at the same time
Overlap(txn) == \A g \in Goroutines : DOMAIN txn[g].pending # {}

\* one iteration of the loop in the function given to db.Update: txn.Set, and
\* the return of its error, which discards the transaction
ConcSet(g) ==
    LET t == conc.txn[g] IN
    /\ t.pc = "fn" /\ t.i <= Len(t.keys)
    /\ LET r == txnSet([pending |-> t.pending, count |-> t.count,
                        size |-> t.size], t.keys[t.i],
                       Marshal(Metadata(t.user, t.repo, t.ts)))
           after == IF r.err # Nil
                    THEN [t EXCEPT !.pc = "returned", !.err = r.err,
                                   !.pending = EmptyDB]
                    ELSE [t EXCEPT !.pending = r.pending, !.count = r.count,
                                   !.size = r.size, !.i = t.i + 1]
           txn == [conc.txn EXCEPT ![g] = after]
       IN  conc' = [conc EXCEPT !.txn = txn,
                                !.overlapped = conc.overlapped \/ Overlap(txn)]
    /\ UNCHANGED <<db, last, kvars, fvars, dvars, files, userInfoFlag>>

\* a mutant of ConcCommit: the commit puts the writes into the store one key
\* at a time
ConcCommitKeyByKey(g) ==
    LET t == conc.txn[g] IN
    /\ t.pc = "fn" /\ t.i > Len(t.keys)
    /\ IF DOMAIN t.pending = {}
       THEN /\ conc' = [conc EXCEPT !.txn[g].pc = "returned"]
            /\ UNCHANGED db
       ELSE \E key \in DOMAIN t.pending :
               /\ db' = [k \in DOMAIN db \cup {key} |->
                            IF k = key THEN t.pending[key] ELSE db[k]]
               /\ conc' = [conc EXCEPT !.txn[g].pending =
                              [k \in DOMAIN t.pending \ {key} |-> t.pending[k]]]
    /\ UNCHANGED <<last, kvars, fvars, dvars, files, userInfoFlag>>

\* the function given to db.Update returns nil and the transaction commits:
\* all its writes enter the store at once
ConcCommit(g) ==
    LET t == conc.txn[g] IN
    /\ t.pc = "fn" /\ t.i > Len(t.keys)
    /\ db' = dbUpdate(db, [pending |-> t.pending, err |-> Nil])
    /\ conc' = [conc EXCEPT !.txn[g].pc = "returned",
                            !.txn[g].pending = EmptyDB]
    /\ UNCHANGED <<last, kvars, fvars, dvars, files, userInfoFlag>>

NextConcurrent == \E g \in Goroutines : ConcSet(g) \/ ConcCommit(g)

SpecConcurrent == InitConcurrent /\ [][NextConcurrent]_vars

(***************************************************************************)
(* Spec: the driver cmd/pubkey-collector.  main runs the membership pass   *)
(* when -org is given and then the stream loop when -stream is given.      *)
(* Time is counted in seconds: it advances in the sleeps of the stream     *)
(* loop, and a pass between two sleeps takes less than a second.           *)
(***************************************************************************)
bot == <<"b", "o", "t">>
someRepo == <<"r">>
Logins == {<<>>, alice, bob, bot}

Pages == StringsUpTo(Logins, MaxPageLen)
Listings == UNION {[1..n -> Pages] : n \in 1..MaxPages}

\* the key-listing responses the driver is run against
DriverBodies ==
    {<<"a", "\n">>, <<"b", "\n", "a">>, <<"a", "\n", "\n", "b">>}
DriverResponses == ResponsesOver(DriverBodies)

\* an event of the activity feed: its actor's login and its repository's name
NoActor == [hasActor |-> FALSE, login |-> <<>>, hasRepo |-> FALSE, name |-> <<>>]
Event(login, hasRepo) ==
    [hasActor |-> TRUE, login |-> login, hasRepo |-> hasRepo,
     name |-> IF hasRepo THEN someRepo ELSE <<>>]
EventKinds ==
    {NoActor, Event(bob, FALSE)} \cup {Event(l, TRUE) : l \in Logins \ {bob}}
EventLists == StringsUpTo(EventKinds, MaxEvents)

\* the errors of ListEvents: err.Error() as a sequence of phrases
ListEventsErrors ==
    {[rateLimit |-> TRUE, text |-> <<"403", "API", "rate limit", "exceeded">>],
     [rateLimit |-> FALSE, text |-> <<"403", "secondary", "rate limit">>],
     [rateLimit |-> FALSE, text |-> <<"500">>]}

\* strings.Contains on a text of phrases
Contains(text, phrase) == \E i \in 1..Len(text) : text[i] = phrase

RateLimitSleep == 1200
RetrySleep == 5
RestSleep == 1

\* time.Now() at the second now of the run: a time in time.Local with a
\* fraction of a second.  The model reads the clock in one zone, an hour
\* east of UTC, and with one fraction; neither changes what a driver does.
LocalOffset == 60
ClockNsec == 123456789
timeNow(sec) == Time(sec, ClockNsec, LocalOffset)

\* keydb.New opens what is at -db: a new database, or the one an earlier
\* run or cmd/pubkey-db-load left there, here with an entry whose time is
\* after the first time.Now() of this run and before the later ones
OpenedStores ==
    {EmptyDB,
     Store(EmptyDB, UserInfo(<<<<"a">>>>, <<>>, bob), bob, timeNow(3)).db}

Init ==
    /\ db \in OpenedStores /\ last = NoCall
    /\ lastWrite = EmptyDB /\ rewritten = {} /\ called = NoFamily
    /\ FetchIdle /\ ConcIdle /\ FileIdle
    /\ pc = "main"
    /\ orgFlag \in {<<>>, org}
    /\ streamFlag \in BOOLEAN
    /\ upstream \in Listings
    /\ orgFlag = <<>> => upstream = << <<>> >>
    /\ now = 0 /\ optsPage = 0 /\ members = <<>> /\ nextPage = 0
    /\ listErr = Nil /\ events = <<>> /\ idx = 1 /\ seen = {}
    /\ allUsers = <<>> /\ users = <<>> /\ sleepFor = 0 /\ polls = 0
    /\ pollErr = NoError
    /\ passed = <<>>

\* main, after the flags and the database: the pass to run first
Main ==
    /\ pc = "main"
    /\ pc' = IF orgFlag # <<>> THEN "OrgMembers"
             ELSE IF streamFlag THEN "processStream" ELSE "exit"
    /\ UNCHANGED <<db, last, kvars, fvars, xvars, orgFlag, streamFlag, now, ovars,
                   svars, idx, allUsers, users, passed>>

\* client.Organizations.ListMembers(ctx, org, opts) on the listing: the page
\* asked for (page 0 is the first) and the number of the page after it
ListMembers(page) ==
    LET n == IF page = 0 THEN 1 ELSE page IN
    [members |-> upstream[n],
     NextPage |-> IF n < Len(upstream) THEN n + 1 ELSE 0]

\* a mutant of afterOrgFailure: the failure ends the membership pass only
afterOrgFailureContinue(stream) == IF stream THEN "processStream" ELSE "exit"

\* processOrgMembers when OrgMembers returns an error: log.Fatalf, which
\* exits the process
afterOrgFailure(stream) == "fatal"

\* OrgMembers: one ListMembers call and its error check
OrgListMembers ==
    /\ pc = "OrgMembers"
    /\ \E failed \in BOOLEAN :
          IF failed
          THEN /\ listErr' = "failed to list org members"
               /\ pc' = afterOrgFailure(streamFlag)
               /\ UNCHANGED <<members, nextPage, idx>>
          ELSE LET r == ListMembers(optsPage) IN
               /\ listErr' = Nil
               /\ members' = r.members
               /\ nextPage' = r.NextPage
               /\ idx' = 1
               /\ pc' = "OrgMembers.range"
    /\ UNCHANGED <<db, last, kvars, fvars, xvars, orgFlag, streamFlag, now, upstream,
                   optsPage, svars, allUsers, users, passed>>

\* storeInDB(userInfo, db)
storeInDB(userInfo) ==
    IF userInfo.Username = <<>> THEN UNCHANGED <<db, last>>
    ELSE \E r \in {Store(db, userInfo, userInfo.Username, timeNow(now))} :
         /\ db' = r.db
         /\ last' = [op |-> "Store", keys |-> userInfo.PublicKeys,
                     user |-> userInfo.Username, repo |-> userInfo.Repo,
                     ts |-> timeNow(now), err |-> r.err]

\* a mutant of OrgMember: each member is stored as soon as its keys are
\* fetched
OrgMemberStoring ==
    /\ pc = "OrgMembers.range" /\ idx <= Len(members)
    /\ LET username == members[idx] IN
          IF username = <<>>
          THEN UNCHANGED <<allUsers, passed, db, last>>
          ELSE \E resp \in DriverResponses :
                  /\ allUsers' = collectUser(allUsers, username, orgFlag, resp)
                  /\ passed' = Append(passed, username)
                  /\ storeInDB(processUser(username, orgFlag, resp).user)
    /\ idx' = idx + 1
    /\ UNCHANGED <<kvars, fvars, xvars, pc, orgFlag, streamFlag, now, ovars,
                   svars, users>>

\* OrgMembers: one iteration of the loop over the page's members
OrgMember ==
    /\ pc = "OrgMembers.range" /\ idx <= Len(members)
    /\ LET username == members[idx] IN
          IF username = <<>>
          THEN UNCHANGED <<allUsers, passed>>
          ELSE \E resp \in DriverResponses :
                  /\ allUsers' = collectUser(allUsers, username, orgFlag, resp)
                  /\ passed' = Append(passed, username)
    /\ idx' = idx + 1
    /\ UNCHANGED <<db, last, kvars, fvars, xvars, pc, orgFlag, streamFlag, now, ovars,
                   svars, users>>

\* a mutant of morePages: the first page is taken for the last
morePagesNever(next) == FALSE

\* a mutant of morePages: the loop never breaks
morePagesAlways(next) == TRUE

\* if resp.NextPage == 0 { break }
morePages(next) == next # 0

\* OrgMembers: the end of a page; the next page, or the return to
\* processOrgMembers with the users collected (the locals end with the call)
OrgPageDone ==
    /\ pc = "OrgMembers.range" /\ idx > Len(members)
    /\ IF morePages(nextPage)
       THEN /\ optsPage' = nextPage
            /\ pc' = "OrgMembers"
            /\ UNCHANGED users
            /\ UNCHANGED <<members, nextPage, idx, allUsers>>
       ELSE /\ users' = allUsers
            /\ pc' = "processOrgMembers"
            /\ optsPage' = 0 /\ members' = <<>> /\ nextPage' = 0
            /\ idx' = 1 /\ allUsers' = <<>>
    /\ UNCHANGED <<db, last, kvars, fvars, xvars, orgFlag, streamFlag, now, upstream,
                   listErr, svars, passed>>

\* a mutant of StoreUser: the loop ends at the first Store that fails
StoreUserAborting ==
    /\ pc \in {"processOrgMembers", "processStreamEvents"}
    /\ users # <<>>
    /\ storeInDB(Head(users))
    /\ users' = IF Store(db, Head(users), Head(users).Username,
                          timeNow(now)).err # Nil
                THEN <<>> ELSE Tail(users)
    /\ UNCHANGED <<kvars, fvars, xvars, pc, orgFlag, streamFlag, now, ovars,
                   svars, idx, allUsers, passed>>

\* processOrgMembers, processStreamEvents: one iteration of the loop that
\* stores the users
StoreUser ==
    /\ pc \in {"processOrgMembers", "processStreamEvents"}
    /\ users # <<>>
    /\ storeInDB(Head(users))
    /\ users' = Tail(users)
    /\ UNCHANGED <<kvars, fvars, xvars, pc, orgFlag, streamFlag, now, ovars, svars,
                   idx, allUsers, passed>>

\* processOrgMembers returns to main: the pass is over, and its listing and
\* history are of no use to what follows
OrgStored ==
    /\ pc = "processOrgMembers" /\ users = <<>>
    /\ pc' = IF streamFlag THEN "processStream" ELSE "exit"
    /\ upstream' = << <<>> >> /\ passed' = <<>>
    /\ UNCHANGED <<db, last, kvars, fvars, xvars, orgFlag, streamFlag, now, optsPage,
                   members, nextPage, listErr, svars, idx, allUsers, users>>

\* a mutant of RecentEventsError: every error is wrapped as a rate limit hit
RecentEventsErrorAllRateLimit(e) == <<"rate limit", "hit">> \o e.text

\* RecentEvents wraps the error of ListEvents
RecentEventsError(e) ==
    IF e.rateLimit THEN <<"rate limit", "hit">> \o e.text
    ELSE <<"failed to list events">> \o e.text

\* a mutant of sleepAfter: every failed poll is retried after the short sleep
sleepAfterAlwaysShort(errText) == RetrySleep

\* processStream: the sleep after a poll that failed
sleepAfter(errText) ==
    IF Contains(errText, "rate limit") THEN RateLimitSleep ELSE RetrySleep

\* processStream, processStreamEvents, RecentEvents: one poll, the call of
\* ListEvents with a fresh seen, and the sleep when it fails
StreamListEvents ==
    /\ pc = "processStream" /\ polls < MaxPolls
    /\ polls' = polls + 1
    /\ seen' = {} /\ allUsers' = <<>> /\ passed' = <<>> /\ idx' = 1
    /\ \/ \E evs \in EventLists :
            /\ events' = evs
            /\ pc' = "RecentEvents.range"
            /\ UNCHANGED <<sleepFor, pollErr>>
       \/ \E e \in ListEventsErrors :
            /\ events' = <<>>
            /\ pollErr' = PollError(e.rateLimit, e.text)
            /\ sleepFor' = sleepAfter(RecentEventsError(e))
            /\ pc' = "sleep"
    /\ UNCHANGED <<db, last, kvars, fvars, xvars, orgFlag, streamFlag, now, ovars,
                   users>>

\* a mutant of likelyBot: no login is taken for a bot's
likelyBotNever(login) == FALSE

likelyBot(login) ==
    HasSuffix(login, <<"b", "o", "t">>) \/ HasSuffix(login, <<"b", "o", "t", "]">>)

\* a mutant of skipEvent: the seen set is not consulted
skipEventUnseen(event, seenLogins) ==
    \/ ~event.hasActor
    \/ event.login = <<>>
    \/ likelyBot(event.login)

\* RecentEvents: the checks that make the loop skip an event
skipEvent(event, seenLogins) ==
    \/ ~event.hasActor
    \/ event.login = <<>> \/ event.login \in seenLogins
    \/ likelyBot(event.login)

\* a mutant of StreamEvent: the login processed is not put into seen
StreamEventNotMarking ==
    /\ pc = "RecentEvents.range" /\ idx <= Len(events)
    /\ LET event == events[idx]
           repoName == IF event.hasRepo THEN event.name ELSE <<>>
       IN  IF skipEvent(event, seen)
           THEN UNCHANGED <<allUsers, passed>>
           ELSE \E resp \in DriverResponses :
                   /\ allUsers' = collectUser(allUsers, event.login, repoName, resp)
                   /\ passed' = Append(passed, event.login)
    /\ idx' = idx + 1
    /\ UNCHANGED <<db, last, kvars, fvars, xvars, pc, orgFlag, streamFlag, now,
                   ovars, svars, users>>

\* RecentEvents: one iteration of the loop over the events
StreamEvent ==
    /\ pc = "RecentEvents.range" /\ idx <= Len(events)
    /\ LET event == events[idx]
           repoName == IF event.hasRepo THEN event.name ELSE <<>>
       IN  IF skipEvent(event, seen)
           THEN UNCHANGED <<allUsers, seen, passed>>
           ELSE \E resp \in DriverResponses :
                   /\ allUsers' = collectUser(allUsers, event.login, repoName, resp)
                   /\ seen' = seen \cup {event.login}
                   /\ passed' = Append(passed, event.login)
    /\ idx' = idx + 1
    /\ UNCHANGED <<db, last, kvars, fvars, xvars, pc, orgFlag, streamFlag, now, ovars,
                   events, sleepFor, polls, pollErr, users>>

\* RecentEvents returns the users collected to processStreamEvents (the
\* locals end with the call)
StreamEventsDone ==
    /\ pc = "RecentEvents.range" /\ idx > Len(events)
    /\ users' = allUsers
    /\ pc' = "processStreamEvents"
    /\ events' = <<>> /\ seen' = {} /\ idx' = 1 /\ allUsers' = <<>>
    /\ UNCHANGED <<db, last, kvars, fvars, xvars, orgFlag, streamFlag, now, ovars,
                   sleepFor, polls, pollErr, passed>>

\* processStream: the rest after a poll whose users are stored
StreamStored ==
    /\ pc = "processStreamEvents" /\ users = <<>>
    /\ sleepFor' = RestSleep
    /\ pc' = "sleep"
    /\ UNCHANGED <<db, last, kvars, fvars, xvars, orgFlag, streamFlag, now, ovars,
                   events, seen, polls, pollErr, idx, allUsers, users, passed>>

\* processStream: time.Sleep returns and the loop goes round
Wake ==
    /\ pc = "sleep"
    /\ now' = now + sleepFor
    /\ pc' = "processStream"
    /\ pollErr' = NoError
    /\ UNCHANGED <<db, last, kvars, fvars, xvars, orgFlag, streamFlag, ovars,
                   events, seen, sleepFor, polls, idx, allUsers, users, passed>>

Next ==
    \/ Main
    \/ OrgListMembers \/ OrgMember \/ OrgPageDone \/ OrgStored
    \/ StoreUser
    \/ StreamListEvents \/ StreamEvent \/ StreamEventsDone \/ StreamStored
    \/ Wake

Spec == Init /\ [][Next]_vars

(***************************************************************************)
(* SpecFile: the file-based driver, main.go at the root of the repository. *)
(* It writes one JSON file per user under the output directory, as each    *)
(* user is processed.  The pauses before a user is processed, after a      *)
(* failed Users.Get and between two pages of events change nothing and are *)
(* not steps; this driver never reads the clock.                           *)
(***************************************************************************)
MaxFileEvents == 2

Bob == <<"B", "o", "b">>
FileLogins == {<<>>, alice, Bob, bot}
FilePages == StringsUpTo(FileLogins, MaxPageLen)
FileListings == UNION {[1..n -> FilePages] : n \in 1..MaxPages}

FileEventKinds ==
    {NoActor, Event(Bob, FALSE)} \cup {Event(l, TRUE) : l \in FileLogins \ {Bob}}
FileEventLists == StringsUpTo(FileEventKinds, MaxFileEvents)

FileResponses == ResponsesOver({<<"a", "\n">>})

\* strings.ToLower on the letters of the logins
ToLowerChar(c) == IF c = "A" THEN "a" ELSE IF c = "B" THEN "b" ELSE c
ToLower(str) == [i \in 1..Len(str) |-> ToLowerChar(str[i])]

\* filepath.Join(outDir, subdir, username+".json"), below outDir
Path(username) ==
    [subdir |-> IF Len(username) > 2 THEN ToLower(SubSeq(username, 1, 2))
                ELSE username,
     name |-> username \o <<".json">>]

\* the UserInfo that is written: the outer variable u is never assigned (the
\* := of Users.Get declares another u), so GitHub is always nil
FileUserInfo(publicKeys, repo) ==
    [PublicKeys |-> publicKeys, Repo |-> repo, GitHub |-> NilUser]

\* json.MarshalIndent(userInfo): the object's members in field order
FileMarshal(u) ==
    << <<"public_keys", u.PublicKeys>>, <<"Repo", u.Repo>>, <<"GitHub", "null">> >>

\* what an earlier run may have left under the output directory
FilesBefore ==
    {EmptyDir,
     [path \in {Path(alice)} |-> FileMarshal(FileUserInfo(<<<<"a">>>>, org))]}

\* the outcomes of client.Users.Get and of os.WriteFile (which may fail
\* before or after it created the file)
UserGets == {"error", "Bot", "User"}
FileWrites == {"written", "not created", "truncated"}

InitFile ==
    /\ db = EmptyDB /\ last = NoCall
    /\ lastWrite = EmptyDB /\ rewritten = {} /\ called = NoFamily
    /\ FetchIdle /\ ConcIdle
    /\ pc = "file.main"
    /\ orgFlag \in {<<>>, org}
    /\ streamFlag \in BOOLEAN
    /\ userInfoFlag \in BOOLEAN
    /\ upstream \in FileListings
    /\ orgFlag = <<>> => upstream = << <<>> >>
    /\ files \in FilesBefore
    /\ now = 0 /\ optsPage = 0 /\ members = <<>> /\ nextPage = 0
    /\ listErr = Nil /\ events = <<>> /\ idx = 1 /\ seen = {}
    /\ allUsers = <<>> /\ users = <<>> /\ sleepFor = 0 /\ polls = 0
    /\ pollErr = NoError
    /\ passed = <<>>

\* main, after the flags and the output directory
FileMain ==
    /\ pc = "file.main"
    /\ pc' = IF orgFlag # <<>> THEN "listOrgMembers"
             ELSE IF streamFlag THEN "streamEvents" ELSE "file.exit"
    /\ UNCHANGED <<db, last, kvars, fvars, xvars, orgFlag, streamFlag, now,
                   ovars, svars, idx, allUsers, users, passed>>

\* a mutant of fileExists: no file is ever found
fileExistsNever(dir, path) == FALSE

\* _, err := os.Stat(path); err == nil
fileExists(dir, path) == path \in DOMAIN dir

\* os.WriteFile(path, jsonData, 0o644)
WriteFile(dir, path, data, outcome) ==
    IF outcome = "not created" THEN dir
    ELSE [q \in DOMAIN dir \cup {path} |->
             IF q # path THEN dir[q]
             ELSE IF outcome = "written" THEN data ELSE <<>>]

\* processUser of main.go: passed records the usernames whose keys were
\* fetched
fileProcessUser(username, repo) ==
    IF username = <<>> \/ fileExists(files, Path(username))
    THEN UNCHANGED <<files, passed>>
    ELSE \E resp \in FileResponses :
         LET f == fetchPublicKeys(resp)
             publicKeys == IF f.err # Nil THEN <<>> ELSE f.keys
             jsonData == FileMarshal(FileUserInfo(publicKeys, repo))
         IN  /\ passed' = Append(passed, username)
             /\ \E got \in UserGets, outcome \in FileWrites :
                   files' =
                      IF userInfoFlag /\ got # "User" THEN files
                      ELSE IF ~userInfoFlag /\ likelyBot(username) THEN files
                      ELSE WriteFile(files, Path(username), jsonData, outcome)

\* listOrgMembers: one ListMembers call; log.Fatalf when it fails
FileListMembers ==
    /\ pc = "listOrgMembers"
    /\ \E failed \in BOOLEAN :
          IF failed
          THEN /\ listErr' = "Failed to list org members"
               /\ pc' = "file.fatal"
               /\ UNCHANGED <<members, nextPage, idx>>
          ELSE LET r == ListMembers(optsPage) IN
               /\ listErr' = Nil
               /\ members' = r.members
               /\ nextPage' = r.NextPage
               /\ idx' = 1
               /\ pc' = "listOrgMembers.range"
    /\ UNCHANGED <<db, last, kvars, fvars, xvars, orgFlag, streamFlag, now,
                   upstream, optsPage, svars, allUsers, users, passed>>

\* listOrgMembers: one iteration of the loop over the page's members
FileMember ==
    /\ pc = "listOrgMembers.range" /\ idx <= Len(members)
    /\ fileProcessUser(members[idx], orgFlag)
    /\ idx' = idx + 1
    /\ UNCHANGED <<db, last, kvars, fvars, conc, userInfoFlag, pc, orgFlag,
                   streamFlag, now, ovars, svars, allUsers, users>>

\* listOrgMembers: the end of a page; the next page, or the return to main,
\* which goes on to the first streamEvents call
FilePageDone ==
    /\ pc = "listOrgMembers.range" /\ idx > Len(members)
    /\ IF morePages(nextPage)
       THEN /\ optsPage' = nextPage
            /\ pc' = "listOrgMembers"
            /\ UNCHANGED <<upstream, members, nextPage, idx, passed>>
       ELSE /\ pc' = IF streamFlag THEN "streamEvents" ELSE "file.exit"
            /\ optsPage' = 0 /\ members' = <<>> /\ nextPage' = 0 /\ idx' = 1
            /\ upstream' = << <<>> >> /\ passed' = <<>>
    /\ UNCHANGED <<db, last, kvars, fvars, xvars, orgFlag, streamFlag, now,
                   listErr, svars, allUsers, users>>

\* streamEvents: one ListEvents call for the page opts.Page; the cooldown
\* on a RateLimitError, log.Fatalf on any other error
FileListEvents ==
    /\ pc = "streamEvents" /\ polls < MaxPolls
    /\ polls' = polls + 1
    /\ \/ \E evs \in FileEventLists, more \in BOOLEAN :
            LET n == IF optsPage = 0 THEN 1 ELSE optsPage IN
            /\ events' = evs
            /\ nextPage' = IF more /\ n < MaxPages THEN n + 1 ELSE 0
            /\ idx' = 1
            /\ pc' = "streamEvents.range"
            /\ pollErr' = NoError
            /\ UNCHANGED sleepFor
       \/ \E e \in ListEventsErrors :
            /\ pollErr' = PollError(e.rateLimit, e.text)
            /\ IF e.rateLimit
               THEN sleepFor' = RateLimitSleep /\ pc' = "file.cooldown"
               ELSE UNCHANGED sleepFor /\ pc' = "file.fatal"
            /\ UNCHANGED <<events, nextPage, idx>>
    /\ UNCHANGED <<db, last, kvars, fvars, xvars, orgFlag, streamFlag, now,
                   upstream, optsPage, members, listErr, seen, allUsers,
                   users, passed>>

\* streamEvents: the cooldown is over, continue with the same page and seen
FileCooldownOver ==
    /\ pc = "file.cooldown"
    /\ pc' = "streamEvents"
    /\ UNCHANGED <<db, last, kvars, fvars, xvars, orgFlag, streamFlag, now,
                   ovars, svars, idx, allUsers, users, passed>>

\* streamEvents: one iteration of the loop over the events
FileEvent ==
    /\ pc = "streamEvents.range" /\ idx <= Len(events)
    /\ LET event == events[idx] IN
          IF ~event.hasActor \/ event.login \in seen
          THEN UNCHANGED <<files, passed, seen>>
          ELSE /\ fileProcessUser(event.login, event.name)
               /\ seen' = seen \cup {event.login}
    /\ idx' = idx + 1
    /\ UNCHANGED <<db, last, kvars, fvars, conc, userInfoFlag, pc, orgFlag,
                   streamFlag, now, ovars, events, sleepFor, polls, pollErr,
                   allUsers,
                   users>>

\* streamEvents: the end of a page; the next page, or the return to main,
\* which rests before the next streamEvents call
FileEventsDone ==
    /\ pc = "streamEvents.range" /\ idx > Len(events)
    /\ IF morePages(nextPage)
       THEN /\ optsPage' = nextPage
            /\ pc' = "streamEvents"
            /\ UNCHANGED sleepFor
       ELSE /\ sleepFor' = RestSleep
            /\ pc' = "file.rest"
            /\ UNCHANGED optsPage
    /\ events' = <<>> /\ idx' = 1 /\ nextPage' = 0
    /\ UNCHANGED <<db, last, kvars, fvars, xvars, orgFlag, streamFlag, now,
                   upstream, members, listErr, seen, polls, pollErr, allUsers, users,
                   passed>>

\* main: the rest is over, the next streamEvents call starts with its own
\* opts and seen
FileRestOver ==
    /\ pc = "file.rest"
    /\ pc' = "streamEvents"
    /\ optsPage' = 0 /\ seen' = {} /\ passed' = <<>>
    /\ UNCHANGED <<db, last, kvars, fvars, xvars, orgFlag, streamFlag, now,
                   upstream, members, nextPage, listErr, events, sleepFor, pollErr,
                   polls, idx, allUsers, users>>

NextFile ==
    \/ FileMain
    \/ FileListMembers \/ FileMember \/ FilePageDone
    \/ FileListEvents \/ FileCooldownOver \/ FileEvent \/ FileEventsDone
    \/ FileRestOver

SpecFile == InitFile /\ [][NextFile]_vars

(***************************************************************************)
(* SpecDrivers: either driver of the repository is run.                    *)
(***************************************************************************)
InitDrivers == Init \/ InitFile

NextDrivers == Next \/ NextFile

SpecDrivers == InitDrivers /\ [][NextDrivers]_vars

(***************************************************************************)
(* SpecStream and SpecOrg: either driver run with -stream alone, and with  *)
(* -org alone.  A driver is one goroutine whose calls and sleeps return,   *)
(* so a step that can be taken is taken: weak fairness of the next step.   *)
(***************************************************************************)
InitStream == InitDrivers /\ orgFlag = <<>> /\ streamFlag

NextStream ==
    \/ Main
    \/ StreamListEvents \/ StreamEvent \/ StreamEventsDone
    \/ StoreUser \/ StreamStored \/ Wake
    \/ FileMain
    \/ FileListEvents \/ FileCooldownOver \/ FileEvent \/ FileEventsDone
    \/ FileRestOver

SpecStream == InitStream /\ [][NextStream]_vars /\ WF_vars(NextStream)

InitOrg == InitDrivers /\ orgFlag # <<>> /\ ~streamFlag

NextOrg ==
    \/ Main
    \/ OrgListMembers \/ OrgMember \/ OrgPageDone \/ StoreUser \/ OrgStored
    \/ FileMain
    \/ FileListMembers \/ FileMember \/ FilePageDone

SpecOrg == InitOrg /\ [][NextOrg]_vars /\ WF_vars(NextOrg)

(***************************************************************************)
(* Claims about the store.                                                 *)
(***************************************************************************)
LastMetadata == Metadata(last.user, last.repo, last.ts)

\* C1 (SpecKeyDB): a Lookup of a key that Store calls have written returns
\* exactly the metadata (user, repo, timestamp) of the last of these calls.
C1_LastWriteWins ==
    (last.op = "Lookup" /\ last.key \in DOMAIN lastWrite)
        => (last.err = Nil /\ last.meta = lastWrite[last.key])

\* a Lookup of a key written twice, the second time with another user, repo
\* and timestamp
C1_Witness ==
    /\ last.op = "Lookup"
    /\ last.key \in rewritten
    /\ last.err = Nil
    /\ last.meta = lastWrite[last.key]

RECURSIVE SumSizes(_)
SumSizes(F) ==
    IF F = {} THEN 0
    ELSE LET S == CHOOSE T \in F : TRUE IN Cardinality(S) + SumSizes(F \ {S})

\* C2 as stated (SpecCount): after Store calls for identities with pairwise
\* disjoint key sets, Count() is the sum of the sizes of the key sets, and a
\* Store of an identity stored before leaves Count() as it was.
C2_AsStated ==
    /\ (last.op = "Count" /\ called.disjoint)
          => last.n = SumSizes(called.family)
    /\ (last.op = "Store" /\ called.disjoint /\ called.again)
          => Count(db) = called.countBefore

\* the timestamp is one json.Marshal encodes
Encodes(ts) == ~MarshalFails(Metadata(<<>>, <<>>, ts))

\* C2 amended (SpecCount): after Store calls for identities with pairwise
\* disjoint key sets, Count() is the sum of the sizes of the key sets of
\* the calls that returned nil.  A call that returns an error, as every
\* call with an empty key does, adds nothing.  A Store of an identity that
\* was stored before leaves Count() as it was, whether it succeeds or not.
C2_CountIsSum ==
    /\ (last.op = "Count" /\ called.disjoint)
          => last.n = SumSizes(called.stored)
    /\ (last.op = "Store" /\ <<>> \in KeySet(last.keys))
          => last.err # Nil
    /\ (last.op = "Store" /\ last.err # Nil /\ called.disjoint)
          => Count(db) = called.countBefore
    /\ (last.op = "Store" /\ called.disjoint /\ called.againStored)
          => Count(db) = called.countBefore

\* Count() after two identities with disjoint, non-empty key sets were
\* stored, one of them was stored again and a call of the family returned
\* an error
C2_Witness ==
    /\ last.op = "Count"
    /\ called.disjoint /\ called.againStored
    /\ Cardinality({S \in called.stored : S # {}}) >= 2
    /\ called.family # called.stored
    /\ last.n = 2

\* C3 as stated (SpecKeyDB): a Store of an identity without public keys
\* returns nil and leaves every entry of the store as it was.
C3_AsStated ==
    [][(last'.op = "Store" /\ last'.keys = <<>>)
          => (last'.err = Nil /\ db' = db)]_vars

\* C3 amended (SpecKeyDB): a Store of an identity without public keys leaves
\* every entry of the store as it was; it returns nil when its timestamp
\* encodes, and the error of json.Marshal when it does not.
C3_EmptyIdentity ==
    [][(last'.op = "Store" /\ last'.keys = <<>>)
          => /\ db' = db
             /\ last'.err = Nil <=> Encodes(last'.ts)]_vars

\* a Store of an identity without keys has returned nil on a store that
\* holds entries
C3_Witness ==
    /\ last.op = "Store" /\ last.keys = <<>> /\ last.err = Nil
    /\ Encodes(last.ts)
    /\ db # EmptyDB

\* the keys of a call that come before the first key the store refuses
Refused(key) ==
    txnSet(NewTxn, key, Marshal(Metadata(<<>>, <<>>, Time(0, 0, 0)))).err # Nil
WrittenBeforeFailure(keys) ==
    {keys[i] : i \in {j \in 1..Len(keys) : \A h \in 1..j : ~Refused(keys[h])}}

\* C9 as stated (SpecKeyDB): when a write fails inside a Store call, Store
\* returns the error and the keys written earlier in the call are in the
\* store with the call's metadata.
C9_AsStated ==
    (last.op = "Store" /\ Encodes(last.ts) /\ last.err # Nil)
        => \A k \in WrittenBeforeFailure(last.keys) :
              k \in DOMAIN db /\ Unmarshal(db[k]) = LastMetadata

\* C9 amended (SpecKeyDB): when a write fails inside a Store call, Store
\* returns the error and no key of the call is written, those before the
\* failing one included: the store is as it was before the call.
C9_FailedStoreWritesNothing ==
    [][(last'.op = "Store" /\ \E i \in 1..Len(last'.keys) : Refused(last'.keys[i]))
          => (last'.err # Nil /\ db' = db)]_vars

\* a failed Store whose first key was accepted and is not in the store
C9_Witness ==
    /\ last.op = "Store" /\ last.err # Nil
    /\ Encodes(last.ts)
    /\ Len(last.keys) >= 2
    /\ WrittenBeforeFailure(last.keys) # {}
    /\ \A k \in WrittenBeforeFailure(last.keys) : k \notin DOMAIN db

\* the two calls of SpecConcurrent run one after the other
InSequence(first, second) ==
    LET one == Store(conc.base, UserInfo(first.keys, first.repo, first.user),
                     first.user, first.ts)
        two == Store(one.db, UserInfo(second.keys, second.repo, second.user),
                     second.user, second.ts)
    IN  [db |-> two.db, firstErr |-> one.err, secondErr |-> two.err]

BothReturned == \A g \in Goroutines : conc.txn[g].pc = "returned"
SharedKeys == KeySet(conc.txn[1].keys) \cap KeySet(conc.txn[2].keys)

\* C18 (SpecConcurrent): when two Store calls run concurrently, the store
\* they leave, and the error each returns, are those of running the two calls
\* one after the other in one of the two orders; when both succeed, every key
\* they share holds the complete metadata of the same one call.
C18_Serializable ==
    BothReturned =>
        LET t1 == conc.txn[1]
            t2 == conc.txn[2]
            s12 == InSequence(t1, t2)
            s21 == InSequence(t2, t1)
        IN  /\ \/ db = s12.db /\ t1.err = s12.firstErr /\ t2.err = s12.secondErr
               \/ db = s21.db /\ t2.err = s21.firstErr /\ t1.err = s21.secondErr
            /\ (t1.err = Nil /\ t2.err = Nil) =>
                  \E w \in {t1, t2} : \A k \in SharedKeys :
                      Unmarshal(db[k]) = Metadata(w.user, w.repo, w.ts)

\* two calls that share two keys, whose transactions held writes at the same
\* time, have both returned nil
C18_Witness ==
    /\ BothReturned /\ conc.overlapped
    /\ \A g \in Goroutines : conc.txn[g].err = Nil
    /\ Cardinality(SharedKeys) = 2
    /\ conc.txn[1].keys # conc.txn[2].keys

\* C20 (SpecKeyDB): a Store call changes only the entries whose key is one of
\* the identity's public keys: every other entry keeps its value, no entry
\* appears under another key, and no Store, Lookup or Count call removes an
\* entry or changes one it does not write.
C20_StoreFrame ==
    [][/\ DOMAIN db \subseteq DOMAIN db'
       /\ last'.op = "Store" =>
             /\ DOMAIN db' \subseteq DOMAIN db \cup KeySet(last'.keys)
             /\ \A k \in DOMAIN db \ KeySet(last'.keys) : db'[k] = db[k]
       /\ last'.op \in {"Lookup", "Count"} => db' = db]_vars

\* a Store that wrote its keys into a store holding an entry of another
\* identity under a key that is not one of them
C20_Witness ==
    /\ last.op = "Store" /\ last.err = Nil /\ last.keys # <<>>
    /\ \A i \in 1..Len(last.keys) : Unmarshal(db[last.keys[i]]) = LastMetadata
    /\ \E k \in DOMAIN db \ KeySet(last.keys) :
          /\ Unmarshal(db[k]).User # last.user
          /\ Unmarshal(db[k]) = lastWrite[k]

(***************************************************************************)
(* Claims about the key fetcher.                                           *)
(***************************************************************************)
RetrievalFailed(resp) == resp.getErr \/ resp.status # StatusOK \/ resp.readErr

\* C5 (SpecFetch): when the key-listing retrieval of a username fails in
\* transport or returns a status other than 200, processUser returns no
\* error and the identity is appended to the collected users with an empty
\* key sequence.
C5_FailedFetchIsEmptyIdentity ==
    (fOut.done /\ fIn.username # <<>> /\ RetrievalFailed(fIn.resp))
        => fOut.allUsers = <<UserInfo(<<>>, fIn.repo, fIn.username)>>

\* a retrieval answered with status 404 for a user, who is handed on
C5_Witness ==
    /\ fOut.done
    /\ fIn.username = alice
    /\ ~fIn.resp.getErr /\ fIn.resp.status = 404
    /\ fOut.fetch.err # Nil
    /\ Len(fOut.allUsers) = 1

BodyRead(resp) == ~RetrievalFailed(resp)

\* C6 as stated (SpecFetch): the keys of a non-empty body are its lines after
\* trimming trailing white space, and a trailing newline gives no trailing
\* empty element; an empty body gives the empty sequence.
C6_AsStated ==
    (fOut.done /\ BodyRead(fIn.resp))
        => LET body == fIn.resp.body
               keys == fOut.fetch.keys
           IN  IF body = <<>> THEN keys = <<>>
               ELSE /\ keys = Split(TrimRightSpace(body), "\n")
                    /\ body[Len(body)] = "\n" => keys[Len(keys)] # <<>>

\* the keys joined by newlines
RECURSIVE Join(_)
Join(keys) ==
    IF keys = <<>> THEN <<>>
    ELSE IF Len(keys) = 1 THEN keys[1]
    ELSE keys[1] \o <<"\n">> \o Join(Tail(keys))

AllSpace(s) == \A i \in 1..Len(s) : IsSpace(s[i])

\* C6 amended (SpecFetch): the keys of a non-empty body are, in order, the
\* lines of the body without its leading and its trailing white space; the
\* first and the last key are not empty, except that a body of white space
\* alone gives the one key "".  An empty body gives the empty sequence.
C6_KeysAreTrimmedLines ==
    (fOut.done /\ BodyRead(fIn.resp))
        => LET body == fIn.resp.body
               keys == fOut.fetch.keys
               text == Join(keys)
           IN  IF body = <<>> THEN keys = <<>>
               ELSE /\ keys # <<>>
                    /\ \A i \in 1..Len(keys) : \A j \in 1..Len(keys[i]) :
                          keys[i][j] # "\n"
                    /\ \E lead \in 0..Len(body), trail \in 0..Len(body) :
                          /\ lead + trail <= Len(body)
                          /\ AllSpace(SubSeq(body, 1, lead))
                          /\ AllSpace(SubSeq(body, Len(body) - trail + 1, Len(body)))
                          /\ text = SubSeq(body, lead + 1, Len(body) - trail)
                    /\ IF AllSpace(body) THEN keys = << <<>> >>
                       ELSE /\ ~IsSpace(text[1]) /\ ~IsSpace(text[Len(text)])
                            /\ keys[1] # <<>> /\ keys[Len(keys)] # <<>>

\* the body "a\nb\n" gives the keys "a" and "b"
C6_Witness ==
    /\ fOut.done /\ BodyRead(fIn.resp)
    /\ fIn.resp.body = <<"a", "\n", "b", "\n">>
    /\ fOut.fetch.keys = << <<"a">>, <<"b">> >>

(***************************************************************************)
(* Claims about the driver.                                                *)
(***************************************************************************)
RECURSIVE Flatten(_)
Flatten(pages) ==
    IF pages = <<>> THEN <<>> ELSE Head(pages) \o Flatten(Tail(pages))

Times(seq, x) == Cardinality({i \in 1..Len(seq) : seq[i] = x})

NonEmptyOf(seq) == SelectSeq(seq, LAMBDA u : u # <<>>)

\* the usernames the source has yielded to the loop so far in this pass
YieldedMembers ==
    LET n == IF optsPage = 0 THEN 1 ELSE optsPage IN
    Flatten(SubSeq(upstream, 1, n - 1)) \o SubSeq(members, 1, idx - 1)

YieldedActors ==
    LET evs == SelectSeq(SubSeq(events, 1, idx - 1), LAMBDA e : e.hasActor) IN
    [i \in 1..Len(evs) |-> evs[i].login]

EndsInBot(u) ==
    \/ Len(u) >= 3 /\ SubSeq(u, Len(u) - 2, Len(u)) = <<"b", "o", "t">>
    \/ Len(u) >= 4 /\ SubSeq(u, Len(u) - 3, Len(u)) = <<"b", "o", "t", "]">>

\* C4 as stated (Spec): in a membership walk and in an activity poll, every
\* non-empty username the source has yielded has gone on to processUser
\* exactly once, and the empty username never.
C4_AsStated ==
    /\ pc = "OrgMembers.range" =>
          \A u \in Logins :
             Times(passed, u) =
                IF u # <<>> /\ Times(YieldedMembers, u) > 0 THEN 1 ELSE 0
    /\ pc = "RecentEvents.range" =>
          \A u \in Logins :
             Times(passed, u) =
                IF u # <<>> /\ Times(YieldedActors, u) > 0 THEN 1 ELSE 0

\* C4 amended (Spec): in an activity poll, every non-empty username without
\* bot suffix that the poll has yielded has gone on to processUser exactly
\* once, and an empty or bot-suffixed username never.  A membership walk has
\* no dedup check: every non-empty username goes on once per occurrence.
C4_OncePerPoll ==
    /\ pc = "RecentEvents.range" =>
          \A u \in Logins :
             Times(passed, u) =
                IF u # <<>> /\ ~EndsInBot(u) /\ Times(YieldedActors, u) > 0
                THEN 1 ELSE 0
    /\ pc = "OrgMembers.range" =>
          \A u \in Logins :
             Times(passed, u) = IF u = <<>> THEN 0 ELSE Times(YieldedMembers, u)

\* a poll with the actors alice, alice, bob has let alice and bob through
C4_Witness ==
    /\ pc = "RecentEvents.range" /\ idx = 4
    /\ YieldedActors = <<alice, alice, bob>>
    /\ passed = <<alice, bob>>

\* C7 (Spec): in a membership walk the members of every page of the listing
\* go on to processUser once each, in page order (the first pages while a
\* later one is read); the pass ends after the last page, and the users left
\* to store are the last of those that went on.
C7_EveryPageInOrder ==
    /\ pc = "OrgMembers.range" => passed = NonEmptyOf(YieldedMembers)
    /\ pc = "processOrgMembers" =>
          /\ passed = NonEmptyOf(Flatten(upstream))
          /\ Len(users) <= Len(passed)
          /\ [i \in 1..Len(users) |-> users[i].Username] =
                SubSeq(passed, Len(passed) - Len(users) + 1, Len(passed))

\* the listing [alice, bob], [bot] in two pages: three identities went on and
\* are stored, and the pass is at its end
C7_Witness ==
    /\ pc = "processOrgMembers"
    /\ upstream = << <<alice, bob>>, <<bot>> >>
    /\ passed = <<alice, bob, bot>>
    /\ users = <<>>

\* C8 (Spec): no entry of the store has the empty string as its key.
C8_NoEmptyKey == \A k \in DOMAIN db : k # <<>>

\* an identity whose fetched keys hold an empty line was handed to Store,
\* next to entries written before
C8_Witness ==
    /\ last.op = "Store"
    /\ \E i \in 1..Len(last.keys) : last.keys[i] = <<>>
    /\ \E k \in DOMAIN db : k # <<"a">>

\* C10 as stated (SpecDrivers): when ListMembers has failed and -stream is
\* given, the process goes on to the stream loop.
C10_AsStated ==
    (listErr # Nil /\ streamFlag)
        => pc \notin {"fatal", "exit", "file.fatal", "file.exit"}

\* a step in which a ListMembers call fails
ListMembersFails == listErr = Nil /\ listErr' # Nil

\* C10 amended (SpecDrivers): when ListMembers fails the process exits at
\* once in both drivers: no step follows, and with -stream given no poll of
\* the activity stream is ever made.  The store-backed driver has then
\* written nothing for the organization (no Store call was made, the store
\* is as it was opened).  The file-based driver writes nothing in the
\* failing step and nothing after it; the files it wrote for the members of
\* the pages listed before the failure remain.
C10_MembershipFailureIsFatal ==
    /\ [](listErr # Nil =>
            /\ pc \in {"fatal", "file.fatal"}
            /\ polls = 0
            /\ ~ENABLED NextDrivers
            /\ pc = "fatal" => (last = NoCall /\ db \in OpenedStores))
    /\ [][ListMembersFails => (files' = files /\ db' = db)]_vars

\* ListMembers of the file-based driver fails on the second page with
\* -stream given, after the key file of a member of the first page was
\* written
C10_Witness ==
    /\ pc = "file.fatal" /\ listErr # Nil /\ streamFlag
    /\ optsPage = 2
    /\ files # EmptyDir

Storing == pc \in {"processOrgMembers", "processStreamEvents"}

\* C12 (Spec): while users of a pass are left to store, the next step is the
\* Store call for the first of them and the loop goes on to the rest,
\* whether the call fails or not; a call that fails is logged and writes
\* nothing.
C12_FailedStoreGoesOn ==
    [][(Storing /\ users # <<>>) =>
          LET u == Head(users) IN
          /\ pc' = pc /\ users' = Tail(users)
          /\ last'.op = "Store" /\ last'.user = u.Username
          /\ last'.keys = u.PublicKeys
          /\ last'.err = Store(db, u, u.Username, timeNow(now)).err
          /\ last'.err # Nil => db' = db]_vars

\* the Store call for the second of three identities of a membership pass
\* has failed, and the third is left to store
C12_Witness ==
    /\ pc = "processOrgMembers"
    /\ Len(passed) = 3 /\ Len(users) = 1
    /\ last.op = "Store" /\ last.err # Nil /\ last.user = passed[2]

\* C19 (Spec): a membership pass of the store-backed driver writes nothing
\* while pages are enumerated and keys fetched: no Store call is made and
\* the store is as it was opened; when the enumeration of a page fails the
\* process ends with nothing written, the identities of the pages
\* enumerated before included.
C19_NoWriteBeforeEnumerationEnds ==
    pc \in {"OrgMembers", "OrgMembers.range", "fatal"}
        => (last = NoCall /\ db \in OpenedStores)

\* the enumeration of the second page failed after an identity with keys was
\* fetched from the first
C19_Witness ==
    /\ pc = "fatal" /\ optsPage = 2
    /\ \E i \in 1..Len(allUsers) : allUsers[i].PublicKeys # <<>>
    /\ last = NoCall /\ db = EmptyDB

(***************************************************************************)
(* Claims about both drivers.                                              *)
(***************************************************************************)
\* a step fetched the keys of a username: the username
Fetches == Len(passed') = Len(passed) + 1
Fetched == passed'[Len(passed')]

\* the identity is recorded: the store holds an entry written for the user,
\* or the user's file is under the output directory
RecordedInStore(u) == \E k \in DOMAIN db : Unmarshal(db[k]).User = u
Recorded(u) == RecordedInStore(u) \/ Path(u) \in DOMAIN files

\* the username the loop of the store-backed driver is about to hand to
\* processUser, if any
OrgNext == IF idx <= Len(members) THEN members[idx] ELSE <<>>
StreamNext ==
    IF idx <= Len(events) /\ events[idx].hasActor
          /\ events[idx].login \notin seen /\ ~EndsInBot(events[idx].login)
    THEN events[idx].login ELSE <<>>

\* C11 as stated (SpecDrivers): no key fetch is made for an identity that is
\* already recorded.
C11_AsStated == [][Fetches => ~Recorded(Fetched)]_vars

\* C11 amended (SpecDrivers): the file-based driver fetches no keys for a
\* user whose file exists and leaves every existing file as it is; the
\* store-backed driver has no such check and fetches the keys of every
\* username it hands to processUser, recorded or not.
C11_OnlyFilesAreChecked ==
    [][/\ pc \in {"listOrgMembers.range", "streamEvents.range"} =>
             /\ Fetches => Path(Fetched) \notin DOMAIN files
             /\ \A q \in DOMAIN files : q \in DOMAIN files' /\ files'[q] = files[q]
       /\ (pc = "OrgMembers.range" /\ OrgNext # <<>>) =>
             (Fetches /\ Fetched = OrgNext)
       /\ (pc = "RecentEvents.range" /\ StreamNext # <<>>) =>
             (Fetches /\ Fetched = StreamNext)]_vars

\* the file-based driver has gone past a member whose file exists without a
\* fetch
C11_Witness ==
    /\ pc = "listOrgMembers.range" /\ optsPage = 0 /\ idx = 2
    /\ members[1] = alice /\ Path(alice) \in DOMAIN files
    /\ passed = <<>>

\* C16 as stated (SpecDrivers): no key fetch is made and nothing is written
\* for a username that ends in "bot" or "bot]", in any pass of either driver.
C16_AsStated ==
    [][/\ Fetches => ~EndsInBot(Fetched)
       /\ last'.op = "Store" => ~EndsInBot(last'.user)
       /\ \A u \in FileLogins :
             (EndsInBot(u) /\ Path(u) \in DOMAIN files') => Path(u) \in DOMAIN files]_vars

\* C16 amended (SpecDrivers): in an activity poll of the store-backed driver
\* no key fetch is made and no user is stored for a username that ends in
\* "bot" or "bot]"; the file-based driver run without -userinfo writes no
\* file for such a username.
C16_BotsSkippedInPolls ==
    [][/\ pc = "RecentEvents.range" => (Fetches => ~EndsInBot(Fetched))
       /\ pc = "processStreamEvents" =>
             \A i \in 1..Len(users) : ~EndsInBot(users[i].Username)
       /\ (pc \in {"listOrgMembers.range", "streamEvents.range"} /\ ~userInfoFlag) =>
             \A u \in FileLogins :
                (EndsInBot(u) /\ Path(u) \in DOMAIN files') => Path(u) \in DOMAIN files]_vars

\* the store-backed driver has gone past an event of a bot without a fetch
C16_Witness ==
    /\ pc = "RecentEvents.range" /\ idx = 2
    /\ events[1].hasActor /\ EndsInBot(events[1].login)
    /\ passed = <<>>

\* the username the loop of the file-based driver is about to hand to
\* processUser, if any
FileNext ==
    IF idx <= Len(events) /\ events[idx].hasActor /\ events[idx].login \notin seen
    THEN events[idx].login ELSE <<>>

\* the user's file was written in an activity pass: it names the repository
\* of an event, not the organization
WrittenInAPass(u) ==
    /\ Path(u) \in DOMAIN files
    /\ files[Path(u)] # <<>>
    /\ JSONField(files[Path(u)], "Repo") # org

\* C17 as stated (SpecDrivers): a username that was processed in an earlier
\* activity poll and is met in this one, not yet seen in it, is fetched
\* again.
C17_AsStated ==
    [][/\ (pc = "RecentEvents.range" /\ StreamNext # <<>>) =>
             (Fetches /\ Fetched = StreamNext)
       /\ (pc = "streamEvents.range" /\ FileNext # <<>> /\ WrittenInAPass(FileNext)) =>
             (Fetches /\ Fetched = FileNext)]_vars

\* C17 amended (SpecDrivers): seen is empty when a pass starts, only grows
\* during the pass, holds every login processed in it and is discarded at
\* its end.  In the store-backed driver a username met in a poll and not yet
\* seen in it is fetched whatever earlier polls did, and its keys are stored
\* with the time of this poll, whatever the time of the entries they
\* replace.  In the file-based driver a pass is one streamEvents call,
\* cooldowns included, and a username whose file exists is not fetched.
C17_SeenPerPass ==
    [][/\ pc \in {"processStream", "file.rest"} => seen' = {}
       /\ (pc = "RecentEvents.range" /\ idx <= Len(events)) =>
             (seen \subseteq seen' /\ (Fetches => Fetched \in seen'))
       /\ (pc = "RecentEvents.range" /\ idx > Len(events)) => seen' = {}
       /\ (pc = "RecentEvents.range" /\ StreamNext # <<>>) =>
             (Fetches /\ Fetched = StreamNext)
       /\ (pc = "processStreamEvents" /\ users # <<>> /\ last'.err = Nil) =>
             \A k \in KeySet(Head(users).PublicKeys) :
                Unmarshal(db'[k]) =
                   Metadata(Head(users).Username, Head(users).Repo,
                            timeNow(now))
       /\ pc \in {"streamEvents", "streamEvents.range", "file.cooldown"} =>
             seen \subseteq seen'
       /\ (pc = "streamEvents.range" /\ FileNext # <<>>) => FileNext \in seen'
       /\ (pc = "streamEvents.range" /\ FileNext # <<>>
             /\ Path(FileNext) \in DOMAIN files) => (~Fetches /\ files' = files)]_vars

\* in a run of the store-backed driver without a membership pass, the second
\* poll has stored alice again: one of her keys has the time of this poll,
\* another still the time of the first
C17_Witness ==
    /\ pc = "processStreamEvents" /\ orgFlag = <<>> /\ polls = 2
    /\ last.op = "Store" /\ last.user = alice /\ last.err = Nil
    /\ last.ts = timeNow(now) /\ now > 0
    /\ \E k \in DOMAIN db :
          /\ Unmarshal(db[k]).User = alice
          /\ Unmarshal(db[k]).Timestamp = timeNow(now)
    /\ \E k \in DOMAIN db :
          /\ Unmarshal(db[k]).User = alice
          /\ Unmarshal(db[k]).Timestamp = timeNow(0)


(***************************************************************************)
(* Claims about the event stream of both drivers, under SpecStream         *)
(***************************************************************************)
\* the last ListEvents call failed with a *github.RateLimitError
RateLimited == ~pollErr.isNil /\ pollErr.rateLimit

\* the top of the event loop of either driver
LoopTop == pc \in {"processStream", "streamEvents"}

\* C13 as stated: after a poll that hit the primary rate limit either driver
\* sleeps for the long cooldown, writes nothing, and comes back to a fresh
\* head poll: an empty seen set and the first page.
C13_AsStated ==
    [][(RateLimited /\ pc \in {"sleep", "file.cooldown"})
          => /\ sleepFor = RateLimitSleep
             /\ db' = db /\ files' = files
             /\ LoopTop'
             /\ seen' = {} /\ optsPage' = 0]_vars

\* C13: a poll that hit the primary rate limit writes nothing and is
\* followed by the long cooldown, after which the loop goes on.  The
\* store-backed driver comes back to the top of its loop, whose next poll
\* starts with an empty seen set; the file-based driver asks for the same
\* page again and keeps the seen set of the interrupted pass.
C13_RateLimitCooldown ==
    /\ [](pc = "file.cooldown" => RateLimited)
    /\ []((RateLimited /\ pc \in {"sleep", "file.cooldown"})
             => sleepFor = RateLimitSleep)
    /\ [][(RateLimited' /\ ~RateLimited) => (db' = db /\ files' = files)]_vars
    /\ [][(RateLimited /\ pc = "sleep")
             => (db' = db /\ pc' = "processStream" /\ seen' = {})]_vars
    /\ [][pc = "file.cooldown"
             => /\ files' = files
                /\ pc' = "streamEvents"
                /\ seen' = seen /\ optsPage' = optsPage]_vars
    /\ (RateLimited /\ pc \in {"sleep", "file.cooldown"}) ~> LoopTop

\* the store-backed driver sleeps out a rate limit hit by its second poll,
\* the users of the first poll being in the store
C13_Witness ==
    /\ pc = "sleep"
    /\ RateLimited
    /\ sleepFor = RateLimitSleep
    /\ polls = 2
    /\ last.op = "Store" /\ last.err = Nil

\* the last ListEvents call failed with an error that is not a
\* *github.RateLimitError
OtherError == ~pollErr.isNil /\ ~pollErr.rateLimit

\* C14 as stated: after a poll that failed with any other error either
\* driver is in the short retry sleep, never in the long cooldown and never
\* at its end.
C14_AsStated == OtherError => (pc = "sleep" /\ sleepFor = RetrySleep)

\* C14: the store-backed driver sleeps the long cooldown after every failed
\* poll whose message contains "rate limit", a RateLimitError or not, and
\* the short retry interval after every other one; no error ends its loop,
\* which comes back to its top after the sleep.  The file-based driver ends
\* the process on every error that is not a RateLimitError.
C14_RetryOrFatal ==
    /\ []((~pollErr.isNil /\ pc = "sleep")
             => sleepFor = IF \/ pollErr.rateLimit
                              \/ Contains(pollErr.text, "rate limit")
                           THEN RateLimitSleep
                           ELSE RetrySleep)
    /\ [](OtherError => pc \in {"sleep", "file.fatal"})
    /\ [](pc \notin {"fatal", "exit"})
    /\ [][pc = "sleep" => (pc' = "processStream" /\ db' = db)]_vars
    /\ [][pc # "file.fatal"]_vars
    /\ (pc = "sleep") ~> (pc = "processStream")

\* the store-backed driver in the short sleep after a second poll that
\* failed with an error that does not mention a rate limit
C14_Witness ==
    /\ pc = "sleep"
    /\ OtherError
    /\ ~Contains(pollErr.text, "rate limit")
    /\ sleepFor = RetrySleep
    /\ polls = 2

(***************************************************************************)
(* Claims about the membership pass of both drivers, under SpecOrg         *)
(***************************************************************************)
\* the driver is about to ask for a page of members
Requesting == pc \in {"OrgMembers", "listOrgMembers"}

\* the driver is in the page loop of OrgMembers or of listOrgMembers
Enumerating ==
    pc \in {"OrgMembers", "OrgMembers.range",
            "listOrgMembers", "listOrgMembers.range"}

\* the page in hand is the one the upstream reported as the last
LastPage ==
    /\ pc \in {"OrgMembers.range", "listOrgMembers.range"}
    /\ nextPage = 0

\* C15: once a page came with no further page, no page is asked for any
\* more and the pass ends after the members of that page; a pass that has
\* ended is not taken up again; and, the listing being finite, every
\* membership pass ends.
C15_MembershipPassEnds ==
    /\ [][LastPage => ~Requesting']_vars
    /\ [][(LastPage /\ idx > Len(members)) => ~Enumerating']_vars
    /\ [][(~Enumerating /\ pc \notin {"main", "file.main"})
             => ~Enumerating']_vars
    /\ Enumerating ~> ~Enumerating

\* the store-backed driver has left OrgMembers with the users of a listing
\* of two pages
C15_Witness ==
    /\ pc = "processOrgMembers"
    /\ Len(upstream) = MaxPages
    /\ Len(passed) >= 2
    /\ optsPage = 0

====
